---- MODULE Spec2Model ----
(***************************************************************************)
(* Interactive figures of ray-optics: the mouse protocol of                *)
(* InteractiveFigure (hover highlight, press/drag/release dispatch, pan    *)
(* and zoom-box commands, view box arithmetic) and the vertex editor of    *)
(* ParaxialDesignFigure / EditableLine.                                    *)
(*                                                                         *)
(* The plotting toolkit is outside the repository.  What the handlers ask  *)
(* of it is modelled by its documented contract: a canvas registry of      *)
(* (cid, event, handler) connections, artists with a z-order and a         *)
(* contains() test, axes limits.  Whether the registry hands out a fresh   *)
(* id for a handler that is already connected or returns the existing one  *)
(* is left open (cid_reuse).  Numbers are exact: colours and line widths   *)
(* are in hundredths, data coordinates are multiples of Grid so that the   *)
(* halvings and the factors 0.8 and 1.2 divide exactly.                    *)
(***************************************************************************)
EXTENDS Integers, Sequences, FiniteSets, TLC

VARIABLES
    \* ---- InteractiveFigure
    hilited, selected, do_scale_bounds, save_do_scale_bounds,
    do_action, on_finished, event_dict, callback_ids,
    view_bbox, ax, artists, pan_button, boxes,
    \* ---- the toolkit's canvas
    canvas, cid_reuse,
    \* ---- what the last step was and what it called
    last, calls, raised,
    zooms,
    \* ---- one artist under highlight / unhighlight
    st_p, st_orig, st_ops,
    \* ---- ParaxialDesignFigure
    dgm_type, lens, vertex, px_last, px_edits,
    \* ---- one vertex hit test: its inputs and the two results
    h_x, h_y, h_event, h_hits, h_fig, h_el,
    \* ---- EditableLine
    el_x, el_y, el_press, el_markers, el_last,
    \* ---- the mouse: number of buttons held down, and the press and release
    \* points of the rubber band drawn last
    held, rb_drag

ifvars == <<hilited, selected, do_scale_bounds, save_do_scale_bounds,
            do_action, on_finished, event_dict, callback_ids,
            view_bbox, ax, artists, pan_button, boxes,
            canvas, cid_reuse, last, calls, raised, zooms>>

stvars == <<st_p, st_orig, st_ops>>

pxvars == <<dgm_type, lens, vertex, px_last, px_edits>>

hvars == <<h_x, h_y, h_event, h_hits, h_fig, h_el>>

elvars == <<el_x, el_y, el_press, el_markers, el_last>>

vars == <<ifvars, stvars, pxvars, hvars, elvars, held, rb_drag>>

(***************************************************************************)
(* Bounds                                                                  *)
(***************************************************************************)
MaxPos == 4
MaxCid == 6
MaxBoxes == 1
MaxCoord == 1
MaxZooms == 2
MaxOps == 3
MaxEdits == 1
MaxPx == 2
MaxHeld == 2
MaxBoxCoord == 2

RECURSIVE Pow(_, _)
Pow(b, n) == IF n = 0 THEN 1 ELSE b * Pow(b, n - 1)

\* one zoom halves the extent and multiplies it by n/10
Grid == Pow(20, MaxZooms)

Pos == 0..MaxPos
DataCoord == {c * Grid : c \in 0..MaxCoord}
Points == {<<c, c>> : c \in DataCoord}
Boxes == Points \X Points
FullBox == <<<<0, 0>>, <<MaxCoord * Grid, MaxCoord * Grid>>>>

(***************************************************************************)
(* Python values                                                           *)
(***************************************************************************)
None == "None"
NoAttr == <<>>                     \* an attribute that was never assigned
NoSel == [artist |-> None, info |-> -1]      \* None where a SelectInfo goes

SelectInfo(artist, info) == [artist |-> artist, info |-> info]

(***************************************************************************)
(* The scene: the children of the axes in get_children() order.  "grid"    *)
(* carries no shape attribute (an axis line drawn by draw_axes).           *)
(***************************************************************************)
Children == <<"a1", "a2", "a3", "grid">>
ArtistNames == {Children[i] : i \in 1..Len(Children)}

HasShape(a) == a # "grid"

\* artist.shape = (shape, handle), set by update_patches
ShapeOf(a) ==
    CASE a = "a1" -> <<"s1", "body">>
      [] a = "a2" -> <<"s1", "edge">>
      [] a = "a3" -> <<"s2", "pt">>
      [] OTHER    -> <<None, None>>

\* shape.actions: the keys a shape has a handler for
ShapeActions(s) ==
    CASE s = "s1" -> {"press", "drag", "release"}
      [] s = "s2" -> {"press", "release"}
      [] OTHER    -> {}

Zorder(a) ==
    CASE a = "a1" -> 1
      [] a = "a2" -> 2
      [] a = "a3" -> 2
      [] OTHER    -> 3

\* artist.contains(event): the cursor positions an artist covers
Extent(a) ==
    CASE a = "a1" -> {1, 2}
      [] a = "a2" -> {2, 3}
      [] a = "a3" -> {3, 4}
      [] OTHER    -> Pos

contains(a, p) == p \in Extent(a)

\* the details contains() returns with a hit depend on where the cursor is
hit_info(a, p) == p

(***************************************************************************)
(* Artists and their highlight / unhighlight closures.                     *)
(* An artist is [kind, fc, ec, lw, color, hilite, unhilite]: fc is an RGBA *)
(* tuple in hundredths, lw is in hundredths of a point, unhilite is        *)
(* NoAttr (never assigned), <<None>>, or the saved style tuple.            *)
(***************************************************************************)
HiliteLineWidth == 200

Polygon(fc, ec, lw) ==
    [kind |-> "polygon", fc |-> fc, ec |-> ec, lw |-> lw,
     color |-> None, hilite |-> None, unhilite |-> NoAttr]

Polyline(color, lw, hilite_color) ==
    [kind |-> "polyline", fc |-> <<>>, ec |-> None, lw |-> lw,
     color |-> color, hilite |-> hilite_color, unhilite |-> NoAttr]

Vertex(color, lw, hilite_color) ==
    [kind |-> "vertex", fc |-> <<>>, ec |-> None, lw |-> lw,
     color |-> color, hilite |-> hilite_color, unhilite |-> NoAttr]

\* the artist holds a saved style: it is in highlighted style
IsHighlighted(p) == Len(p.unhilite) >= 2

polygon_alpha(a) == IF a + 50 > 100 THEN a + 50 - 100 ELSE a + 50

polygon_highlight(p) ==
    [p EXCEPT !.unhilite = <<p.fc, p.ec, p.lw>>,
              !.fc = <<p.fc[1], p.fc[2], p.fc[3], polygon_alpha(p.fc[4])>>]

polygon_unhighlight(p) ==
    [p EXCEPT !.fc = p.unhilite[1], !.ec = p.unhilite[2],
              !.lw = p.unhilite[3], !.unhilite = <<None>>]

polyline_highlight(p) ==
    [p EXCEPT !.unhilite = <<p.color, p.lw>>,
              !.lw = HiliteLineWidth, !.color = p.hilite]

\* a variant that restores the colour and leaves the highlight width
polyline_unhighlight_keeps_width(p) ==
    [p EXCEPT !.color = p.unhilite[1], !.unhilite = <<None>>]

polyline_unhighlight(p) ==
    [p EXCEPT !.lw = p.unhilite[2], !.color = p.unhilite[1],
              !.unhilite = <<None>>]

vertex_highlight(p) ==
    [p EXCEPT !.unhilite = <<p.color, p.lw>>,
              !.lw = HiliteLineWidth, !.color = p.hilite]

vertex_unhighlight(p) ==
    [p EXCEPT !.lw = p.unhilite[2], !.color = p.unhilite[1],
              !.unhilite = <<None>>]

\* p.highlight(p)
highlight(p) ==
    CASE p.kind = "polygon"  -> polygon_highlight(p)
      [] p.kind = "polyline" -> polyline_highlight(p)
      [] OTHER               -> vertex_highlight(p)

\* p.unhighlight(p) unpacks p.unhilite: it raises when there is none
unhighlight_raises(p) == ~IsHighlighted(p)

\* a variant that restores the style and keeps the saved one
unhighlight_keeps_saved(p) ==
    IF unhighlight_raises(p) THEN p
    ELSE CASE p.kind = "polygon"  ->
                [polygon_unhighlight(p) EXCEPT !.unhilite = p.unhilite]
           [] p.kind = "polyline" ->
                [polyline_unhighlight(p) EXCEPT !.unhilite = p.unhilite]
           [] OTHER               ->
                [vertex_unhighlight(p) EXCEPT !.unhilite = p.unhilite]

unhighlight(p) ==
    IF unhighlight_raises(p) THEN p
    ELSE CASE p.kind = "polygon"  -> polygon_unhighlight(p)
           [] p.kind = "polyline" -> polyline_unhighlight(p)
           [] OTHER               -> vertex_unhighlight(p)

InitArtists ==
    [a \in {"a1", "a2", "a3"} |->
        CASE a = "a1" -> Polygon(<<80, 80, 80, 100>>, "black", 50)
          [] a = "a2" -> Polyline("blue", 50, "red")
          [] OTHER    -> Vertex("black", 50, "red")]

(***************************************************************************)
(* The canvas registry and connect_events / disconnect_events.             *)
(* A dict is a sequence of <<key, value>> pairs in insertion order.        *)
(***************************************************************************)
DefaultActions ==
    << <<"button_press_event", "on_press">>,
       <<"button_release_event", "on_release">>,
       <<"motion_notify_event", "on_motion">> >>

dict_set(d, k, v) ==
    IF \E i \in 1..Len(d) : d[i][1] = k
    THEN [i \in 1..Len(d) |-> IF d[i][1] = k THEN <<k, v>> ELSE d[i]]
    ELSE Append(d, <<k, v>>)

\* connection ids are opaque: a new connection is named by the least id that
\* no connection of the registry holds. The canvas keeps one connection per
\* (event, callback): connecting a callback that is already connected to the
\* event returns the id it has (cid_reuse), as matplotlib's CallbackRegistry
\* does for equal bound methods
fresh_cid(cv) ==
    CHOOSE n \in 1..(Cardinality(cv) + 1) :
        /\ \A c \in cv : c.cid # n
        /\ \A m \in 1..(n - 1) : \E c \in cv : c.cid = m

\* canvas.mpl_connect(event, action) on registry st.canvas: the id it returns
mpl_connect_cid(st, ev, h) ==
    IF cid_reuse /\ \E c \in st.canvas : c.event = ev /\ c.handler = h
    THEN (CHOOSE c \in st.canvas : c.event = ev /\ c.handler = h).cid
    ELSE fresh_cid(st.canvas)

\* st is [event_dict, callback_ids, canvas]; one turn of the loop
connect_one(st, ev, h) ==
    LET cid == mpl_connect_cid(st, ev, h) IN
    [event_dict   |-> dict_set(st.event_dict, ev, h),
     callback_ids |-> Append(st.callback_ids, cid),
     canvas       |-> st.canvas \cup {[cid |-> cid, event |-> ev, handler |-> h]}]

RECURSIVE connect_loop(_, _, _)
connect_loop(st, d, i) ==
    IF i > Len(d) THEN st
    ELSE connect_loop(connect_one(st, d[i][1], d[i][2]), d, i + 1)

\* connect_events(action_dict): the new [event_dict, callback_ids, canvas]
connect_events(action_dict) ==
    connect_loop([event_dict |-> event_dict, callback_ids |-> <<>>,
                  canvas |-> canvas],
                 action_dict, 1)

\* the registry holds no more than MaxCid connections
within_cids(cv) == \A c \in cv : c.cid <= MaxCid

\* callback_ids is [attr |-> "noattr" | "None" | "list", ids |-> <<...>>]
IdList(ids) == [attr |-> "list", ids |-> ids]

disconnect_raises == callback_ids.attr # "list"

\* a variant that disconnects the first stored id only
disconnect_first_only ==
    {c \in canvas : Len(callback_ids.ids) = 0 \/ callback_ids.ids[1] # c.cid}

\* the registry after the loop of mpl_disconnect calls
disconnect_canvas ==
    {c \in canvas : \A i \in 1..Len(callback_ids.ids) : callback_ids.ids[i] # c.cid}

\* a handler of the figure that the canvas would call for an event
Connected(ev, h) == \E c \in canvas : c.event = ev /\ c.handler = h

FigureHandlers == {"on_press", "on_release", "on_motion"}

(***************************************************************************)
(* Calls a step makes to its collaborators (shape actions, the pan action, *)
(* highlight closures, the completion callback), in call order.            *)
(***************************************************************************)
Call(fn, key, artist, info, ok) ==
    [fn |-> fn, key |-> key, artist |-> artist, info |-> info, ok |-> ok]

Step(op, arg) == [op |-> op, arg |-> arg]

Callbacks == {"cb1"}

(***************************************************************************)
(* Hit testing                                                             *)
(***************************************************************************)
\* the loop of find_artists_at_location over ax.get_children()
RECURSIVE hits_from(_, _)
hits_from(i, p) ==
    IF i > Len(Children) THEN <<>>
    ELSE LET a == Children[i] IN
         (IF HasShape(a) /\ contains(a, p)
          THEN <<SelectInfo(a, hit_info(a, p))>> ELSE <<>>)
         \o hits_from(i + 1, p)

\* sorted(..., key=zorder, reverse=True): stable, equal keys keep their order
RECURSIVE insert_desc(_, _)
insert_desc(x, s) ==
    IF s = <<>> THEN <<x>>
    ELSE IF Zorder(Head(s).artist) >= Zorder(x.artist)
         THEN <<Head(s)>> \o insert_desc(x, Tail(s))
         ELSE <<x>> \o s

RECURSIVE sorted_by_zorder(_)
sorted_by_zorder(s) ==
    IF s = <<>> THEN <<>>
    ELSE insert_desc(s[Len(s)], sorted_by_zorder(SubSeq(s, 1, Len(s) - 1)))

\* a variant that returns the hits in the order of the children
find_artists_unsorted(p) == hits_from(1, p)

find_artists_at_location(p) == sorted_by_zorder(hits_from(1, p))

(***************************************************************************)
(* View boxes and the axes.  ax is NoAttr before the first plot() and      *)
(* <<limits>> afterwards, limits = <<<<xlo, ylo>>, <<xhi, yhi>>>> as set.  *)
(***************************************************************************)
Min(a, b) == IF a <= b THEN a ELSE b
Max(a, b) == IF a >= b THEN a ELSE b

\* ax.get_xbound(), ax.get_ybound(): the limits in increasing order
axes_bounds(lim) ==
    << <<Min(lim[1][1], lim[2][1]), Min(lim[1][2], lim[2][2])>>,
       <<Max(lim[1][1], lim[2][1]), Max(lim[1][2], lim[2][2])>> >>

\* ax.drag_pan: the toolkit translates the limits with the cursor
pan_targets(lim) ==
    {b \in Boxes : /\ b[2][1] - b[1][1] = lim[2][1] - lim[1][1]
                   /\ b[2][2] - b[1][2] = lim[2][2] - lim[1][2]}

\* util.scale_bounds(self.sys_bbox, self.oversize_factor): the box that fits
\* the artists, which the subclass computes from its shapes
scaled_sys_bbox == FullBox

(***************************************************************************)
(* do_action: do_shape_action, the pan command or the zoom-box no-op.      *)
(* An outcome is what the call changed and what it raised.                 *)
(***************************************************************************)
Outcome(c, pb, a, vb, r) ==
    [calls |-> c, pan_button |-> pb, ax |-> a, view_bbox |-> vb, raised |-> r]

\* a variant that passes on presses and releases only
do_shape_action_no_drag(target, event_key) ==
    IF target # NoSel /\ event_key # "drag"
    THEN {Outcome(<<Call("shape_action", event_key, target.artist, target.info,
                         event_key \in ShapeActions(ShapeOf(target.artist)[1]))>>,
                  pan_button, ax, view_bbox, "none")}
    ELSE {Outcome(<<>>, pan_button, ax, view_bbox, "none")}

do_shape_action(target, event_key) ==
    IF target # NoSel
    THEN {Outcome(<<Call("shape_action", event_key, target.artist, target.info,
                         event_key \in ShapeActions(ShapeOf(target.artist)[1]))>>,
                  pan_button, ax, view_bbox, "none")}
    ELSE {Outcome(<<>>, pan_button, ax, view_bbox, "none")}

\* PanAction.on_press
pan_on_press ==
    IF ax = NoAttr
    THEN {Outcome(<<>>, <<1>>, ax, view_bbox, "AttributeError")}
    ELSE {Outcome(<<Call("pan_action", "press", None, -1, TRUE)>>,
                  <<1>>, ax, view_bbox, "none")}

\* PanAction.on_drag
pan_on_drag ==
    IF ax = NoAttr \/ pan_button = NoAttr
    THEN {Outcome(<<>>, pan_button, ax, view_bbox, "AttributeError")}
    ELSE {Outcome(<<Call("pan_action", "drag", None, -1, TRUE)>>,
                  pan_button, <<b>>, view_bbox, "none") : b \in pan_targets(ax[1])}

\* PanAction.on_release
pan_on_release ==
    IF ax = NoAttr
    THEN {Outcome(<<>>, pan_button, ax, view_bbox, "AttributeError")}
    ELSE {Outcome(<<Call("pan_action", "release", None, -1, TRUE)>>,
                  pan_button, ax, axes_bounds(ax[1]), "none")}

\* do_command_action of register_action
do_pan_action(event_key) ==
    CASE event_key = "press"   -> pan_on_press
      [] event_key = "drag"    -> pan_on_drag
      [] event_key = "release" -> pan_on_release
      [] OTHER -> {Outcome(<<>>, pan_button, ax, view_bbox, "none")}

\* self.do_action(event, target, event_key)
DoAction(target, event_key) ==
    CASE do_action = "do_shape_action" -> do_shape_action(target, event_key)
      [] do_action = "pan"             -> do_pan_action(event_key)
      [] OTHER -> {Outcome(<<>>, pan_button, ax, view_bbox, "none")}


(***************************************************************************)
(* ParaxialDesignFigure and EditableLine: the vertex hit test.             *)
(* Python sequences are 0-based: element i of an array is arr[i + 1] here. *)
(* None is <<>> and a number k is <<k>> where either may occur.            *)
(***************************************************************************)
ht_dgm == 0
slp_dgm == 1

PickRadius == 6

\* min_hit_dist = 1e10 before the loop. 1e10 is beyond TLC's integers; like
\* it, this value is above every squared display distance that can occur
FarAway == 2000000000

PyNone == <<>>
NotRun == <<-1>>

\* data_slice of setup_dgm_type for arrays of length n: start and stop
data_slice_start(t) == IF t = ht_dgm THEN 1 ELSE 0

data_slice_stop(t, n) == IF t = ht_dgm THEN n ELSE n - 1

\* arr[self.data_slice]
sliced(arr, t) ==
    SubSeq(arr, data_slice_start(t) + 1, data_slice_stop(t, Len(arr)))

\* ax.transData.transform: data to display coordinates, four pixels a unit
transData(pt) == <<4 * pt[1] + 10, 4 * pt[2] + 10>>

\* util.misc_math.distance_sqr_2d
distance_sqr_2d(a, b) ==
    (a[1] - b[1]) * (a[1] - b[1]) + (a[2] - b[2]) * (a[2] - b[2])

\* an event at data point pt: event.x, event.y are its display coordinates
Event(pt, inaxes) ==
    [x |-> transData(pt)[1], y |-> transData(pt)[2],
     xdata |-> pt[1], ydata |-> pt[2], inaxes |-> inaxes]

\* a variant of the loop that takes the last hit inside the pick radius
RECURSIVE fig_hit_loop_last(_, _, _, _, _, _)
fig_hit_loop_last(dsp_hits, hit_list, hit_pt, i, min_hit_dist, hit_vertex) ==
    IF i > Len(dsp_hits) THEN hit_vertex
    ELSE LET hit_dist == distance_sqr_2d(dsp_hits[i], hit_pt) IN
         IF hit_dist < PickRadius * PickRadius
         THEN fig_hit_loop_last(dsp_hits, hit_list, hit_pt, i + 1, hit_dist,
                                <<hit_list[i]>>)
         ELSE fig_hit_loop_last(dsp_hits, hit_list, hit_pt, i + 1,
                                min_hit_dist, hit_vertex)

\* the loop of ParaxialDesignFigure.on_press over enumerate(dsp_hits)
RECURSIVE fig_hit_loop(_, _, _, _, _, _)
fig_hit_loop(dsp_hits, hit_list, hit_pt, i, min_hit_dist, hit_vertex) ==
    IF i > Len(dsp_hits) THEN hit_vertex
    ELSE LET hit_dist == distance_sqr_2d(dsp_hits[i], hit_pt) IN
         IF hit_dist < min_hit_dist
         THEN fig_hit_loop(dsp_hits, hit_list, hit_pt, i + 1, hit_dist,
                           IF hit_dist < PickRadius * PickRadius
                           THEN <<hit_list[i]>> ELSE hit_vertex)
         ELSE fig_hit_loop(dsp_hits, hit_list, hit_pt, i + 1, min_hit_dist,
                           hit_vertex)

\* hit_vertex of ParaxialDesignFigure.on_press for plotted data x_data, y_data
fig_hit_vertex(x_data, y_data, hit_list, event) ==
    LET line_hits == [i \in 1..Len(hit_list) |->
                         <<x_data[hit_list[i] + 1], y_data[hit_list[i] + 1]>>]
        dsp_hits  == [i \in 1..Len(line_hits) |-> transData(line_hits[i])]
        hit_pt    == <<event.x, event.y>>
    IN  fig_hit_loop(dsp_hits, hit_list, hit_pt, 1, FarAway, PyNone)

\* the loop of EditableLine.process_hit_location
RECURSIVE el_hit_loop(_, _, _, _, _, _)
el_hit_loop(dsp_hits, hit_list, hit_pt, i, min_hit_dist, hit_vertex) ==
    IF i > Len(dsp_hits) THEN hit_vertex
    ELSE LET hit_dist == distance_sqr_2d(dsp_hits[i], hit_pt) IN
         IF hit_dist < min_hit_dist
         THEN el_hit_loop(dsp_hits, hit_list, hit_pt, i + 1, hit_dist,
                          IF hit_dist < PickRadius * PickRadius
                          THEN <<hit_list[i]>> ELSE hit_vertex)
         ELSE el_hit_loop(dsp_hits, hit_list, hit_pt, i + 1, min_hit_dist,
                          hit_vertex)

\* EditableLine.process_hit_location(event, hit_list) on line data xdata,
\* ydata: its hit_vertex and the (x, y, marker) it returns
process_hit_location(xdata, ydata, event, hit_list) ==
    LET line_hits  == [i \in 1..Len(hit_list) |->
                          <<xdata[hit_list[i] + 1], ydata[hit_list[i] + 1]>>]
        dsp_hits   == [i \in 1..Len(line_hits) |-> transData(line_hits[i])]
        hit_pt     == <<event.x, event.y>>
        hit_vertex == el_hit_loop(dsp_hits, hit_list, hit_pt, 1, FarAway, PyNone)
        h          == hit_list[1]
    IN  IF hit_vertex = PyNone
        THEN [hit_vertex |-> hit_vertex,
              xd |-> SubSeq(xdata, h + 1, Min(h + 2, Len(xdata))),
              yd |-> SubSeq(ydata, h + 1, Min(h + 2, Len(ydata))),
              mkr |-> ""]
        ELSE [hit_vertex |-> hit_vertex,
              xd |-> <<xdata[hit_vertex[1] + 1]>>,
              yd |-> <<ydata[hit_vertex[1] + 1]>>,
              mkr |-> "s"]

PxCoord == 0..MaxPx
PxPoints == PxCoord \X PxCoord

\* the lists contains() can give for a line of n vertices: ascending indices
HitLists(n) ==
    {s \in UNION {[1..k -> 0..(n - 1)] : k \in 1..n} :
        \A i \in 1..(Len(s) - 1) : s[i] < s[i + 1]}

\* the lens of the model: lens[pr][type_sel] and lens[ax][type_sel]
InitLens == [pr |-> <<0, 2, 1, 2>>, ax |-> <<0, 0, 2, 2>>]

PxStep(op, e, hv, c) == [op |-> op, event |-> e, hit_vertex |-> hv, calls |-> c]

IdleParax ==
    /\ dgm_type = ht_dgm
    /\ lens = InitLens
    /\ vertex = PyNone
    /\ px_last = PxStep("__init__", <<>>, NotRun, <<>>)
    /\ px_edits = 0

\* the markers as EditableLine.__init__ plots them: no points, format 'rs'
NoMarkers == [x |-> <<>>, y |-> <<>>, mkr |-> "s", ls |-> "None"]

ElStep(op, e, hl) == [op |-> op, event |-> e, hit_list |-> hl]

IdleLine ==
    /\ el_x = <<>>
    /\ el_y = <<>>
    /\ el_press = PyNone
    /\ el_markers = NoMarkers
    /\ el_last = ElStep("__init__", <<>>, <<>>)

IdleHit ==
    /\ h_x = <<>>
    /\ h_y = <<>>
    /\ h_event = Event(<<0, 0>>, TRUE)
    /\ h_hits = <<>>
    /\ h_fig = NotRun
    /\ h_el = NotRun

(***************************************************************************)
(* InteractiveFigure: operations                                           *)
(***************************************************************************)
\* a RectangleSelector slot: free, or active with the saved event dict
FreeBox == [state |-> "free", saved |-> <<>>]

\* the figure after __init__
InitFigure ==
    /\ hilited = NoSel
    /\ selected = NoSel
    /\ do_scale_bounds = FALSE
    /\ save_do_scale_bounds = NoAttr
    /\ do_action = "do_shape_action"
    /\ on_finished = None
    /\ event_dict = <<>>
    /\ callback_ids = [attr |-> "noattr", ids |-> <<>>]
    /\ view_bbox = FullBox
    /\ ax = NoAttr
    /\ artists = InitArtists
    /\ pan_button = NoAttr
    /\ boxes = [b \in 1..MaxBoxes |-> FreeBox]
    /\ canvas = {}
    /\ cid_reuse = TRUE
    /\ last = Step("__init__", <<>>)
    /\ calls = <<>>
    /\ raised = "none"
    /\ zooms = 0
    /\ held = 0
    /\ rb_drag = <<>>

\* no artist is exercised on its own
IdleStyle ==
    /\ st_p = Polygon(<<0, 0, 0, 0>>, "black", 50)
    /\ st_orig = st_p
    /\ st_ops = <<>>

Init == InitFigure /\ IdleStyle /\ IdleParax /\ IdleHit /\ IdleLine

\* plot() entered with view box vb: what it leaves in the figure
plot_result(vb) ==
    LET box == IF do_scale_bounds THEN scaled_sys_bbox ELSE vb
        st  == connect_events(DefaultActions)
    IN  [view_bbox |-> box, ax |-> <<box>>,
         event_dict |-> st.event_dict, callback_ids |-> IdList(st.callback_ids),
         canvas |-> st.canvas]

plot ==
    LET r == plot_result(view_bbox) IN
    /\ within_cids(r.canvas)
    /\ view_bbox' = r.view_bbox
    /\ ax' = r.ax
    /\ event_dict' = r.event_dict
    /\ callback_ids' = r.callback_ids
    /\ canvas' = r.canvas
    /\ last' = Step("plot", <<>>)
    /\ calls' = <<>>
    /\ raised' = "none"
    /\ UNCHANGED <<hilited, selected, do_scale_bounds, save_do_scale_bounds,
                   do_action, on_finished, artists, pan_button, boxes,
                   cid_reuse, zooms, stvars, pxvars, hvars, elvars, held, rb_drag>>

on_press(p) ==
    /\ Connected("button_press_event", "on_press")
    /\ \E r \in DoAction(hilited, "press") :
        /\ save_do_scale_bounds' = <<do_scale_bounds>>
        /\ do_scale_bounds' = FALSE
        /\ selected' = hilited
        /\ calls' = r.calls
        /\ pan_button' = r.pan_button
        /\ ax' = r.ax
        /\ view_bbox' = r.view_bbox
        /\ raised' = r.raised
    /\ last' = Step("on_press", <<>>)
    /\ UNCHANGED <<hilited, do_action, on_finished, event_dict, callback_ids,
                   artists, boxes, canvas, cid_reuse, zooms, stvars, pxvars, hvars, elvars, rb_drag>>

\* nxt_art is not cur_art: the artist under the cursor is another one
hilite_changes(next_hilited) == next_hilited.artist # hilited.artist

\* the branch of on_motion taken while nothing is selected
hover(p) ==
    LET found        == find_artists_at_location(p)
        next_hilited == IF Len(found) > 0 THEN found[1] ELSE NoSel
        cur_art      == hilited.artist
        nxt_art      == next_hilited.artist
        arts1        == IF hilited # NoSel
                        THEN [artists EXCEPT ![cur_art] = unhighlight(@)]
                        ELSE artists
        arts2        == IF next_hilited # NoSel
                        THEN [arts1 EXCEPT ![nxt_art] = highlight(@)]
                        ELSE arts1
        c1           == IF hilited # NoSel
                        THEN <<Call("unhighlight", "", cur_art, -1,
                                    IsHighlighted(artists[cur_art]))>>
                        ELSE <<>>
        c2           == IF next_hilited # NoSel
                        THEN <<Call("highlight", "", nxt_art, -1,
                                    ~IsHighlighted(arts1[nxt_art]))>>
                        ELSE <<>>
    IN  IF ~hilite_changes(next_hilited)
        THEN [hilited |-> hilited, artists |-> artists, calls |-> <<>>,
              raised |-> "none"]
        ELSE IF hilited # NoSel /\ unhighlight_raises(artists[cur_art])
        THEN [hilited |-> hilited, artists |-> artists, calls |-> c1,
              raised |-> "TypeError"]
        ELSE [hilited |-> next_hilited, artists |-> arts2, calls |-> c1 \o c2,
              raised |-> "none"]

on_motion(p) ==
    /\ Connected("motion_notify_event", "on_motion")
    /\ IF selected = NoSel
       THEN LET h == hover(p) IN
            /\ hilited' = h.hilited
            /\ artists' = h.artists
            /\ calls' = h.calls
            /\ raised' = h.raised
            /\ UNCHANGED <<pan_button, ax, view_bbox>>
       ELSE \E r \in DoAction(selected, "drag") :
            /\ calls' = r.calls
            /\ pan_button' = r.pan_button
            /\ ax' = r.ax
            /\ view_bbox' = r.view_bbox
            /\ raised' = r.raised
            /\ UNCHANGED <<hilited, artists>>
    /\ last' = Step("on_motion", IF selected = NoSel THEN <<p>> ELSE <<>>)
    /\ UNCHANGED <<selected, do_scale_bounds, save_do_scale_bounds, do_action,
                   on_finished, event_dict, callback_ids, boxes, canvas,
                   cid_reuse, zooms, stvars, pxvars, hvars, elvars, held, rb_drag>>

\* a variant that calls the callback and leaves it registered
action_complete_keeps_callback ==
    [calls |-> IF on_finished # None
               THEN <<Call("on_finished", on_finished, None, -1, TRUE)>>
               ELSE <<>>,
     on_finished |-> on_finished]

\* action_complete(): the calls it makes and the on_finished it leaves
action_complete ==
    [calls |-> IF on_finished # None
               THEN <<Call("on_finished", on_finished, None, -1, TRUE)>>
               ELSE <<>>,
     on_finished |-> None]

on_release(p) ==
    /\ Connected("button_release_event", "on_release")
    /\ \E r \in DoAction(selected, "release") :
        /\ pan_button' = r.pan_button
        /\ ax' = r.ax
        /\ view_bbox' = r.view_bbox
        /\ IF r.raised # "none"
           THEN /\ calls' = r.calls
                /\ raised' = r.raised
                /\ UNCHANGED <<do_scale_bounds, selected, on_finished>>
           ELSE IF save_do_scale_bounds = NoAttr
           THEN /\ calls' = r.calls
                /\ raised' = "AttributeError"
                /\ UNCHANGED <<do_scale_bounds, selected, on_finished>>
           ELSE /\ do_scale_bounds' = save_do_scale_bounds[1]
                /\ selected' = NoSel
                /\ calls' = r.calls \o action_complete.calls
                /\ on_finished' = action_complete.on_finished
                /\ raised' = "none"
    /\ last' = Step("on_release", <<>>)
    /\ UNCHANGED <<hilited, save_do_scale_bounds, do_action, event_dict,
                   callback_ids, artists, boxes, canvas, cid_reuse,
                   zooms, stvars, pxvars, hvars, elvars, rb_drag>>

register_pan(cb) ==
    /\ do_action' = "pan"
    /\ pan_button' = NoAttr
    /\ on_finished' = cb
    /\ last' = Step("register_pan", <<>>)
    /\ calls' = <<>>
    /\ raised' = "none"
    /\ UNCHANGED <<hilited, selected, do_scale_bounds, save_do_scale_bounds,
                   event_dict, callback_ids, view_bbox, ax, artists, boxes,
                   canvas, cid_reuse, zooms, stvars, pxvars, hvars, elvars, held, rb_drag>>

\* ZoomBoxAction(fig) inside register_zoom_box, then the two assignments
register_zoom_box(cb) ==
    /\ disconnect_raises \/ \E b \in 1..MaxBoxes : boxes[b].state # "active"
    /\ last' = Step("register_zoom_box", <<>>)
    /\ calls' = <<>>
    /\ IF disconnect_raises
       THEN /\ raised' = IF callback_ids.attr = "None"
                         THEN "TypeError" ELSE "AttributeError"
            /\ UNCHANGED <<event_dict, callback_ids, canvas, boxes, do_action,
                           on_finished>>
       ELSE LET b == CHOOSE b \in 1..MaxBoxes :
                        /\ boxes[b].state # "active"
                        /\ \A c \in 1..(b - 1) : boxes[c].state = "active"
            IN
            /\ canvas' = disconnect_canvas
            /\ callback_ids' = [attr |-> "None", ids |-> <<>>]
            /\ event_dict' = <<>>
            /\ boxes' = [boxes EXCEPT ![b] = [state |-> "active",
                                              saved |-> event_dict]]
            /\ do_action' = "zoom_box"
            /\ on_finished' = cb
            /\ raised' = "none"
    /\ UNCHANGED <<hilited, selected, do_scale_bounds, save_do_scale_bounds,
                   view_bbox, ax, artists, pan_button, cid_reuse,
                   zooms, stvars, pxvars, hvars, elvars, held, rb_drag>>

\* RectangleSelector: a band narrower than minspanx or lower than minspany
\* is dropped without calling the callback
selector_accepts(p1, p2) == p1[1] # p2[1] /\ p1[2] # p2[2]

\* RectangleSelector puts the extents of the band into the two events before
\* it calls the callback: the press event gets the lower-left corner
selector_eventpress(p1, p2) == <<Min(p1[1], p2[1]), Min(p1[2], p2[2])>>

\* ... and the release event the upper-right corner
selector_eventrelease(p1, p2) == <<Max(p1[1], p2[1]), Max(p1[2], p2[2])>>

\* a variant that builds the box from the release event first
zoom_box_swapped(b, press_pt, release_pt) ==
    LET bbox == <<release_pt, press_pt>>
        st   == connect_events(boxes[b].saved)
    IN
    /\ boxes[b].state = "active"
    /\ within_cids(st.canvas)
    /\ view_bbox' = bbox
    /\ ax' = <<bbox>>
    /\ boxes' = [boxes EXCEPT ![b] = FreeBox]
    /\ event_dict' = st.event_dict
    /\ callback_ids' = IdList(st.callback_ids)
    /\ canvas' = st.canvas
    /\ calls' = action_complete.calls
    /\ on_finished' = action_complete.on_finished
    /\ last' = Step("zoom_box_on_release", <<>>)
    /\ raised' = "none"
    /\ UNCHANGED <<hilited, selected, do_scale_bounds, save_do_scale_bounds,
                   do_action, artists, pan_button, cid_reuse, zooms, stvars,
                   pxvars, hvars, elvars, held>>

\* ZoomBoxAction's on_release(press_event, release_event), called by the
\* RectangleSelector of box b when a rubber band drawn from press_pt is
\* released at release_pt
zoom_box_on_release(b, press_pt, release_pt) ==
    LET bbox == <<press_pt, release_pt>>
        st   == connect_events(boxes[b].saved)
    IN
    /\ boxes[b].state = "active"
    /\ within_cids(st.canvas)
    /\ view_bbox' = bbox
    /\ ax' = <<bbox>>
    /\ boxes' = [boxes EXCEPT ![b] = FreeBox]
    /\ event_dict' = st.event_dict
    /\ callback_ids' = IdList(st.callback_ids)
    /\ canvas' = st.canvas
    /\ calls' = action_complete.calls
    /\ on_finished' = action_complete.on_finished
    /\ last' = Step("zoom_box_on_release", <<>>)
    /\ raised' = "none"
    /\ UNCHANGED <<hilited, selected, do_scale_bounds, save_do_scale_bounds,
                   do_action, artists, pan_button, cid_reuse, zooms, stvars, pxvars, hvars, elvars, held>>

Next ==
    \/ plot
    \/ \E p \in Pos : on_press(p) /\ UNCHANGED held
    \/ \E p \in Pos : on_motion(p)
    \/ \E p \in Pos : on_release(p) /\ UNCHANGED held
    \/ \E cb \in Callbacks : register_pan(cb)
    \/ \E cb \in Callbacks : register_zoom_box(cb)
    \/ \E b \in 1..MaxBoxes, p1 \in Points, p2 \in Points :
          /\ selector_accepts(p1, p2)
          /\ zoom_box_on_release(b, selector_eventpress(p1, p2),
                                 selector_eventrelease(p1, p2))
          /\ UNCHANGED rb_drag

Spec == Init /\ [][Next]_vars

(***************************************************************************)
(* Claims about the mouse protocol, checked under Spec                     *)
(***************************************************************************)
ShapeCall(key, sel) ==
    Call("shape_action", key, sel.artist, sel.info,
         key \in ShapeActions(ShapeOf(sel.artist)[1]))

OnFinishedCalls(cs) == {i \in 1..Len(cs) : cs[i].fn = "on_finished"}

\* the artists that carry a shape and contain the cursor at p
ArtistsAt(p) == {a \in ArtistNames : HasShape(a) /\ contains(a, p)}

\* C3: after a motion event handled while nothing is selected, hilited is an
\* artist of highest z-order among the shape-carrying artists that contain
\* the cursor, and None when there is none.
C3_HoverPicksTopArtist ==
    (last.op = "on_motion" /\ last.arg # <<>>) =>
        LET at == ArtistsAt(last.arg[1]) IN
        IF at = {} THEN hilited = NoSel
        ELSE /\ hilited.artist \in at
             /\ \A b \in at : Zorder(b) <= Zorder(hilited.artist)

C3_Witness ==
    /\ last.op = "on_motion"
    /\ last.arg = <<2>>
    /\ hilited.artist = "a2"
    /\ Cardinality(ArtistsAt(2)) = 2

\* C4: an artist is in highlighted style (holds a saved unhilite style)
\* exactly when it is hilited.artist, so at most one is; highlight is only
\* applied to an artist that is not highlighted and unhighlight only to one
\* that is.
C4_HighlightInvariant ==
    /\ \A a \in DOMAIN artists : IsHighlighted(artists[a]) <=> hilited.artist = a
    /\ \A i \in 1..Len(calls) :
          calls[i].fn \in {"highlight", "unhighlight"} => calls[i].ok
    /\ last.op = "on_motion" => raised # "TypeError"

C4_Witness ==
    /\ Len(calls) = 2
    /\ calls[1].fn = "unhighlight"
    /\ calls[2].fn = "highlight"
    /\ calls[1].artist = "a2"
    /\ hilited.artist = "a3"
    /\ IsHighlighted(artists["a3"])
    /\ ~IsHighlighted(artists["a2"])

\* The press/drag/release protocol for an event handled in command mode m or
\* in any mode (m = "any"): a press over a highlighted artist is dispatched
\* as 'press' to that artist's shape and selects it, a motion while an artist
\* is selected is dispatched as 'drag' to that artist, a release while an
\* artist is selected is dispatched as 'release' to it and leaves selected
\* None, and the selected artist never changes between press and release.
ShapeProtocol(m) ==
    /\ (last'.op = "on_press" /\ hilited # NoSel /\ do_action \in m) =>
          /\ calls' = <<ShapeCall("press", hilited)>>
          /\ selected' = hilited
    /\ (last'.op = "on_motion" /\ selected # NoSel /\ do_action \in m) =>
          /\ calls' = <<ShapeCall("drag", selected)>>
          /\ selected' = selected
    /\ (last'.op = "on_release" /\ selected # NoSel /\ do_action \in m) =>
          /\ Len(calls') >= 1
          /\ calls'[1] = ShapeCall("release", selected)
          /\ \A i \in 2..Len(calls') : calls'[i].fn # "shape_action"
          /\ selected' = NoSel
    /\ (selected # NoSel /\ selected' # NoSel) => selected'.artist = selected.artist

AllModes == {"do_shape_action", "pan", "zoom_box"}

\* C1 as stated: the protocol holds for every press over a highlighted artist.
C1_ShapeProtocolAlways == [][ShapeProtocol(AllModes)]_vars

\* C1 (amended): the protocol holds for the events handled while do_action is
\* do_shape_action, that is while no pan or zoom-box command was registered.
C1_ShapeProtocol == [][ShapeProtocol({"do_shape_action"})]_vars

C1_Witness ==
    /\ last.op = "on_release"
    /\ do_action = "do_shape_action"
    /\ Len(calls) = 1
    /\ calls[1] = ShapeCall("release", hilited)
    /\ hilited.artist = "a2"
    /\ selected = NoSel

PanCall(key) == Call("pan_action", key, None, -1, TRUE)

\* C6: in pan mode every press is dispatched as 'press' to the pan action,
\* wherever the cursor is; the motion events that follow a press, up to the
\* release, are dispatched as 'drag' to it; the release is dispatched as
\* 'release' and sets view_bbox to the bounds of the axes.
C6_PanGesture ==
    [][ /\ (do_action = "pan" /\ last'.op = "on_press") =>
              calls' = <<PanCall("press")>>
        /\ (do_action = "pan" /\ last.op = "on_press" /\ last'.op = "on_motion") =>
              \E i \in 1..Len(calls') : calls'[i] = PanCall("drag")
        /\ (do_action = "pan" /\ last'.op = "on_release") =>
              /\ Len(calls') >= 1
              /\ calls'[1] = PanCall("release")
              /\ view_bbox' = axes_bounds(ax'[1])
      ]_vars

\* a step that completes a gesture: a release handled without an error, or
\* the release of the rubber band
Completes(op, r) == op \in {"on_release", "zoom_box_on_release"} /\ r = "none"

\* C9: the completion callback is invoked by a step exactly when the step
\* completes a gesture while a callback is registered; it is then invoked
\* once, after the other calls of the step, and unregistered, so that no
\* later release invokes it again; only the register operations register one.
C9_OneShotCallback ==
    [][ LET done == Completes(last'.op, raised') /\ on_finished # None
            n    == Cardinality(OnFinishedCalls(calls'))
        IN  /\ done => /\ n = 1
                       /\ calls'[Len(calls')] =
                              Call("on_finished", on_finished, None, -1, TRUE)
                       /\ on_finished' = None
            /\ ~done => n = 0
            /\ on_finished' # on_finished =>
                  \/ done
                  \/ last'.op \in {"register_pan", "register_zoom_box"}
      ]_vars

C9_Witness ==
    /\ last.op = "on_release"
    /\ do_action = "pan"
    /\ Len(calls) = 2
    /\ calls[1] = PanCall("release")
    /\ calls[2].fn = "on_finished"
    /\ on_finished = None

FigureConnections == {c \in canvas : c.handler \in FigureHandlers}

\* C10: while a rubber-band box is pending none of the figure's handlers is
\* connected to the canvas, and when no box is pending (it was released) the
\* figure's event_dict and connected handlers are those of before
\* register_zoom_box, the default ones.
C10_ZoomBoxSuspendsHandlers ==
    IF \E b \in 1..MaxBoxes : boxes[b].state = "active"
    THEN FigureConnections = {}
    ELSE callback_ids.attr = "list" =>
           /\ event_dict = DefaultActions
           /\ {<<c.event, c.handler>> : c \in canvas} =
                 {DefaultActions[i] : i \in 1..Len(DefaultActions)}

(***************************************************************************)
(* View box arithmetic: zoom, zoom_in, zoom_out                            *)
(***************************************************************************)
ZoomInFactor == <<8, 10>>      \* 0.8
ZoomOutFactor == <<12, 10>>    \* 1.2
Factors == {ZoomInFactor, ZoomOutFactor, <<5, 10>>, <<20, 10>>}

AllBoxes == (DataCoord \X DataCoord) \X (DataCoord \X DataCoord)

\* the box zoom(factor) builds from bbox; factor is <<n, d>> for n/d
zoom_bbox(bbox, factor) ==
    LET hlf_x == (bbox[2][1] - bbox[1][1]) \div 2
        hlf_y == (bbox[2][2] - bbox[1][2]) \div 2
        cen_x == (bbox[2][1] + bbox[1][1]) \div 2
        cen_y == (bbox[2][2] + bbox[1][2]) \div 2
        sx    == (hlf_x * factor[1]) \div factor[2]
        sy    == (hlf_y * factor[1]) \div factor[2]
    IN  << <<cen_x - sx, cen_y - sy>>, <<cen_x + sx, cen_y + sy>> >>

\* zoom(factor), entered as op: set_view_bbox(view_bbox) and plot()
zoom_call(op, factor) ==
    LET nb == zoom_bbox(view_bbox, factor)
        r  == plot_result(nb)
    IN
    /\ zooms < MaxZooms
    /\ zooms' = zooms + 1
    /\ last' = Step(op, factor)
    /\ calls' = <<>>
    /\ IF ax = NoAttr
       THEN /\ view_bbox' = nb
            /\ raised' = "AttributeError"
            /\ UNCHANGED <<ax, event_dict, callback_ids, canvas>>
       ELSE /\ within_cids(r.canvas)
            /\ view_bbox' = r.view_bbox
            /\ ax' = r.ax
            /\ event_dict' = r.event_dict
            /\ callback_ids' = r.callback_ids
            /\ canvas' = r.canvas
            /\ raised' = "none"
    /\ UNCHANGED <<hilited, selected, do_scale_bounds, save_do_scale_bounds,
                   do_action, on_finished, artists, pan_button, boxes,
                   cid_reuse, stvars, pxvars, hvars, elvars, held, rb_drag>>

zoom(factor) == zoom_call("zoom", factor)

zoom_in == zoom_call("zoom_in", ZoomInFactor)

zoom_out == zoom_call("zoom_out", ZoomOutFactor)

\* the figure as constructed with either do_scale_bounds and any view_bbox
\* whose lower-left corner is not above its upper-right corner
InitZoom ==
    /\ hilited = NoSel
    /\ selected = NoSel
    /\ do_scale_bounds \in BOOLEAN
    /\ save_do_scale_bounds = NoAttr
    /\ do_action = "do_shape_action"
    /\ on_finished = None
    /\ event_dict = <<>>
    /\ callback_ids = [attr |-> "noattr", ids |-> <<>>]
    /\ view_bbox \in {b \in AllBoxes : b[1][1] <= b[2][1] /\ b[1][2] <= b[2][2]}
    /\ ax = NoAttr
    /\ artists = InitArtists
    /\ pan_button = NoAttr
    /\ boxes = [b \in 1..MaxBoxes |-> FreeBox]
    /\ canvas = {}
    /\ cid_reuse = TRUE
    /\ last = Step("__init__", <<>>)
    /\ calls = <<>>
    /\ raised = "none"
    /\ zooms = 0
    /\ held = 0
    /\ rb_drag = <<>>
    /\ IdleStyle
    /\ IdleParax
    /\ IdleHit
    /\ IdleLine

NextZoom ==
    \/ plot
    \/ \E f \in Factors : zoom(f)
    \/ zoom_in
    \/ zoom_out

SpecZoom == InitZoom /\ [][NextZoom]_vars

ZoomOps == {"zoom", "zoom_in", "zoom_out"}

\* C8: zoom(factor) keeps the centre of view_bbox and multiplies its
\* half-widths by factor, the new box has its lower-left corner <= its
\* upper-right corner, zoom_in uses 0.8 and zoom_out 1.2.
C8_ZoomKeepsCentre ==
    [][ last'.op \in ZoomOps =>
          LET n == last'.arg[1]
              d == last'.arg[2]
          IN  /\ \A k \in 1..2 :
                    /\ view_bbox'[1][k] + view_bbox'[2][k] =
                          view_bbox[1][k] + view_bbox[2][k]
                    /\ d * (view_bbox'[2][k] - view_bbox'[1][k]) =
                          n * (view_bbox[2][k] - view_bbox[1][k])
                    /\ view_bbox'[1][k] <= view_bbox'[2][k]
              /\ last'.op = "zoom_in" => 10 * n = 8 * d
              /\ last'.op = "zoom_out" => 10 * n = 12 * d
      ]_vars

(***************************************************************************)
(* One artist under any sequence of highlight and unhighlight calls        *)
(***************************************************************************)
Alphas == {0, 30, 50, 60, 100}
LineWidths == {50, 200}

StyleArtists ==
    {Polygon(<<80, 40, 20, a>>, ec, lw) :
        a \in Alphas, ec \in {"black", "none"}, lw \in LineWidths}
    \cup {Polyline(c, lw, "red") : c \in {"blue", "red"}, lw \in LineWidths}
    \cup {Vertex(c, lw, "green") : c \in {"black", "green"}, lw \in LineWidths}

InitStyle ==
    /\ InitFigure
    /\ st_p \in StyleArtists
    /\ st_orig = st_p
    /\ st_ops = <<>>
    /\ IdleParax
    /\ IdleHit
    /\ IdleLine

st_highlight ==
    /\ Len(st_ops) < MaxOps
    /\ st_p' = highlight(st_p)
    /\ st_ops' = Append(st_ops, "highlight")
    /\ UNCHANGED <<ifvars, st_orig, pxvars, hvars, elvars, held, rb_drag>>

st_unhighlight ==
    /\ Len(st_ops) < MaxOps
    /\ st_p' = unhighlight(st_p)
    /\ st_ops' = Append(st_ops, IF unhighlight_raises(st_p)
                                THEN "raise" ELSE "unhighlight")
    /\ UNCHANGED <<ifvars, st_orig, pxvars, hvars, elvars, held, rb_drag>>

NextStyle == st_highlight \/ st_unhighlight

SpecStyle == InitStyle /\ [][NextStyle]_vars

Style(p) == <<p.fc, p.ec, p.lw, p.color>>

\* C7: highlight followed by unhighlight restores the style the artist had
\* before highlight (face colour, edge colour, line width, colour) and
\* leaves unhilite None, for polygons, polylines and vertices.
C7_HighlightRoundTrip ==
    st_ops \in {<<"highlight", "unhighlight">>,
                <<"raise", "highlight", "unhighlight">>} =>
        /\ Style(st_p) = Style(st_orig)
        /\ st_p.unhilite = <<None>>

C7_Witness ==
    /\ st_ops = <<"highlight", "unhighlight">>
    /\ st_p.kind = "polyline"
    /\ st_p.lw = 50
    /\ st_p.color = "blue"

(***************************************************************************)
(* The vertex hit test on its own: any plotted data, event and hit list    *)
(***************************************************************************)
\* plotted lines of three vertices
HitData == [x : {<<0, 2, 1>>, <<1, 1, 2>>}, y : {<<0, 0, 2>>, <<2, 0, 2>>}]

InitHit ==
    /\ InitFigure
    /\ IdleStyle
    /\ IdleParax
    /\ IdleLine
    /\ \E d \in HitData : h_x = d.x /\ h_y = d.y
    /\ h_event \in {Event(pt, TRUE) : pt \in PxPoints}
    /\ h_hits \in HitLists(3)
    /\ h_fig = NotRun
    /\ h_el = NotRun

\* ParaxialDesignFigure.on_press computes its hit_vertex
hit_by_figure ==
    /\ h_fig = NotRun
    /\ h_fig' = fig_hit_vertex(h_x, h_y, h_hits, h_event)
    /\ UNCHANGED <<ifvars, stvars, pxvars, h_x, h_y, h_event, h_hits, h_el, elvars, held, rb_drag>>

\* EditableLine.process_hit_location computes its hit_vertex
hit_by_line ==
    /\ h_el = NotRun
    /\ h_el' = process_hit_location(h_x, h_y, h_event, h_hits).hit_vertex
    /\ UNCHANGED <<ifvars, stvars, pxvars, h_x, h_y, h_event, h_hits, h_fig, elvars, held, rb_drag>>

NextHit == hit_by_figure \/ hit_by_line

SpecHit == InitHit /\ [][NextHit]_vars

\* squared display distance from the cursor to hit i of the list
HitDist(i) ==
    distance_sqr_2d(transData(<<h_x[h_hits[i] + 1], h_y[h_hits[i] + 1]>>),
                    <<h_event.x, h_event.y>>)

\* the first hit of minimal squared distance, if that is inside the radius
NearestHit ==
    LET first == CHOOSE i \in 1..Len(h_hits) :
                    /\ \A j \in 1..Len(h_hits) : HitDist(i) <= HitDist(j)
                    /\ \A j \in 1..(i - 1) : HitDist(j) > HitDist(i)
    IN  IF HitDist(first) < PickRadius * PickRadius
        THEN <<h_hits[first]>> ELSE PyNone

\* C5: the chosen vertex is the hit of minimal squared display distance to
\* the cursor (the first one on ties) if that distance is strictly below the
\* squared pick radius, and none otherwise; on_press and
\* process_hit_location choose the same vertex.
C5_NearestVertexChosen ==
    /\ h_fig # NotRun => h_fig = NearestHit
    /\ h_el # NotRun => h_el = NearestHit
    /\ (h_fig # NotRun /\ h_el # NotRun) => h_fig = h_el

\* both tests ran on a tie between two nearest hits inside the radius, with
\* a third hit farther away: the first of the two is chosen
C5_Witness ==
    /\ h_fig # NotRun
    /\ h_el # NotRun
    /\ Len(h_hits) = 3
    /\ \E i, j, k \in 1..3 :
          /\ i < j
          /\ HitDist(i) = HitDist(j)
          /\ HitDist(k) > HitDist(i)
          /\ HitDist(i) < PickRadius * PickRadius
          /\ h_fig = <<h_hits[i]>>

(***************************************************************************)
(* ParaxialDesignFigure: press and release on the plotted line             *)
(***************************************************************************)
InitParax ==
    /\ InitFigure
    /\ IdleStyle
    /\ IdleHit
    /\ IdleLine
    /\ dgm_type \in {ht_dgm, slp_dgm}
    /\ lens = InitLens
    /\ vertex = PyNone
    /\ px_last = PxStep("__init__", <<>>, NotRun, <<>>)
    /\ px_edits = 0

\* ParaxialDesignFigure.on_press; hit_list is <<>> when contains() says no
pdf_on_press(event, hit_list) ==
    LET x_data == sliced(lens.pr, dgm_type)
        y_data == sliced(lens.ax, dgm_type)
        hit_vertex == IF hit_list = <<>> THEN NotRun
                      ELSE fig_hit_vertex(x_data, y_data, hit_list, event)
    IN
    /\ vertex' = IF hit_list # <<>> /\ hit_vertex # PyNone
                 THEN <<hit_vertex[1] + data_slice_start(dgm_type)>>
                 ELSE vertex
    /\ px_last' = PxStep("on_press", <<>>, hit_vertex, <<>>)
    /\ UNCHANGED <<ifvars, stvars, hvars, elvars, held, rb_drag, dgm_type, lens, px_edits>>

\* if self.vertex: None and 0 are false
truthy(v) == v # PyNone /\ v[1] # 0

\* ParaxialDesignFigure.on_release
pdf_on_release(event) ==
    /\ IF truthy(vertex)
       THEN /\ px_edits < MaxEdits
            /\ px_edits' = px_edits + 1
            /\ lens' = [pr |-> [lens.pr EXCEPT ![vertex[1] + 1] = event.xdata],
                        ax |-> [lens.ax EXCEPT ![vertex[1] + 1] = event.ydata]]
            /\ vertex' = PyNone
            /\ px_last' = PxStep("on_release", <<event.xdata, event.ydata>>, NotRun,
                                 <<"apply_data", "paraxial_lens_to_seq_model",
                                   "refresh_gui">>)
       ELSE /\ px_last' = PxStep("on_release", <<event.xdata, event.ydata>>, NotRun, <<>>)
            /\ UNCHANGED <<lens, vertex, px_edits>>
    /\ UNCHANGED <<ifvars, stvars, hvars, elvars, held, rb_drag, dgm_type>>

NextParax ==
    \/ \E pt \in PxPoints, hl \in HitLists(3) \cup {<<>>} :
          pdf_on_press(Event(pt, TRUE), hl)
    \/ \E pt \in PxPoints : pdf_on_release(Event(pt, TRUE))

SpecParax == InitParax /\ [][NextParax]_vars

\* C2: a press that picks plotted vertex k selects model index
\* k + data_slice.start, and the next release writes the event's data
\* coordinates into the lens at the selected index, calls apply_data and
\* paraxial_lens_to_seq_model, and calls refresh_gui once; for both diagram
\* types and every plotted vertex.
C2_VertexEdit ==
    [][ /\ (px_last'.op = "on_press" /\ px_last'.hit_vertex \notin {NotRun, PyNone}) =>
              vertex' = <<px_last'.hit_vertex[1] + data_slice_start(dgm_type)>>
        /\ (px_last'.op = "on_release" /\ vertex # PyNone) =>
              /\ lens'.pr[vertex[1] + 1] = px_last'.event[1]
              /\ lens'.ax[vertex[1] + 1] = px_last'.event[2]
              /\ px_last'.calls = <<"apply_data", "paraxial_lens_to_seq_model",
                                    "refresh_gui">>
      ]_vars

(***************************************************************************)
(* disconnect_events, as run by ZoomBoxAction.__init__                     *)
(***************************************************************************)
\* the dictionary disconnect_events returned in the last step: the one the
\* zoom box that became active keeps as saved_events
ReturnedDict(bs, bs2) ==
    {bs2[b].saved : b \in {c \in 1..MaxBoxes :
                              bs[c].state # "active" /\ bs2[c].state = "active"}}

\* C11: after disconnect_events returns, no callback that an earlier
\* connect_events call registered on the canvas remains connected, however
\* often connect_events ran before, and the returned dictionary maps each
\* event name to the handler that was connected for it.
C11_DisconnectsAll ==
    [][ (last'.op = "register_zoom_box" /\ raised' = "none") =>
          /\ FigureConnections' = {}
          /\ ReturnedDict(boxes, boxes') = {event_dict}
          /\ \A i \in 1..Len(event_dict) :
                Connected(event_dict[i][1], event_dict[i][2])
      ]_vars

\* disconnect_events has returned the three default handlers and the canvas
\* holds no connection
C11_Witness ==
    /\ last.op = "register_zoom_box"
    /\ raised = "none"
    /\ canvas = {}
    /\ \E b \in 1..MaxBoxes :
          boxes[b].state = "active" /\ boxes[b].saved = DefaultActions

(***************************************************************************)
(* EditableLine: press, motion and release over the plotted line           *)
(***************************************************************************)
\* the events of the canvas: anywhere in the axes, or outside the axes
\* (event.inaxes is not the line's axes; its data coordinates are not read)
OutsideAxes == Event(<<0, 0>>, FALSE)

LineEvents == {Event(pt, TRUE) : pt \in PxPoints} \cup {OutsideAxes}

\* the plotted lines the EditableLine is made for
LineData == {d \in HitData : d.y = <<0, 0, 2>>}

InitLine ==
    /\ InitFigure
    /\ IdleStyle
    /\ IdleParax
    /\ IdleHit
    /\ \E d \in LineData : el_x = d.x /\ el_y = d.y
    /\ el_press = PyNone
    /\ el_markers = NoMarkers
    /\ el_last = ElStep("__init__", <<>>, <<>>)

\* EditableLine.on_press; hit_list is <<>> when contains() says no
el_on_press(event, hit_list) ==
    /\ el_last' = ElStep("on_press", <<>>, <<>>)
    /\ IF ~event.inaxes \/ hit_list = <<>>
       THEN UNCHANGED el_press
       ELSE LET r == process_hit_location(el_x, el_y, event, hit_list) IN
            el_press' = <<r.xd, r.yd, event.xdata, event.ydata>>
    /\ UNCHANGED <<ifvars, stvars, pxvars, hvars, held, rb_drag, el_x, el_y, el_markers>>

\* EditableLine.on_motion
el_on_motion(event, hit_list) ==
    /\ el_last' = ElStep("on_motion", event, hit_list)
    /\ IF ~event.inaxes
       THEN UNCHANGED el_markers
       ELSE IF hit_list = <<>>
       THEN el_markers' = [el_markers EXCEPT !.x = <<>>, !.y = <<>>]
       ELSE LET r == process_hit_location(el_x, el_y, event, hit_list) IN
            el_markers' = [x |-> r.xd, y |-> r.yd, mkr |-> r.mkr,
                           ls |-> "solid"]
    /\ UNCHANGED <<ifvars, stvars, pxvars, hvars, held, rb_drag, el_x, el_y, el_press>>

\* EditableLine.on_release
el_on_release(event) ==
    /\ el_last' = ElStep("on_release", <<>>, <<>>)
    /\ el_press' = PyNone
    /\ UNCHANGED <<ifvars, stvars, pxvars, hvars, held, rb_drag, el_x, el_y, el_markers>>

NextLine ==
    \/ \E e \in LineEvents, hl \in HitLists(3) \cup {<<>>} : el_on_press(e, hl)
    \/ \E e \in LineEvents, hl \in HitLists(3) \cup {<<>>} : el_on_motion(e, hl)
    \/ \E e \in LineEvents : el_on_release(e)

SpecLine == InitLine /\ [][NextLine]_vars

\* C12: after every ParaxialDesignFigure.on_release vertex is None, whatever
\* vertex the press before it selected, and after every
\* EditableLine.on_release press is None.
C12_ReleaseResets ==
    [][ /\ px_last'.op = "on_release" => vertex' = PyNone
        /\ el_last'.op = "on_release" => el_press' = PyNone
      ]_vars

\* the event and hit list of the last motion: is the cursor over the line
OverLine == el_last.event.inaxes /\ el_last.hit_list # <<>>

\* squared display distance from the cursor of the last motion to hit i
MotionDist(i) ==
    distance_sqr_2d(transData(<<el_x[el_last.hit_list[i] + 1],
                                el_y[el_last.hit_list[i] + 1]>>),
                    <<el_last.event.x, el_last.event.y>>)

\* the hits of the last motion that lie inside the pick radius
InRadius ==
    {i \in 1..Len(el_last.hit_list) : MotionDist(i) < PickRadius * PickRadius}

\* C13: after a motion event with the cursor not over the line (elsewhere in
\* the axes or outside the axes) the markers are empty; with the cursor over
\* the line they show the hit vertex nearest to the cursor with marker 's'
\* if a vertex is within the pick radius, and otherwise the end points of the
\* segment that starts at the first hit index, with an empty marker.
C13_HoverMarkers ==
    el_last.op = "on_motion" =>
        IF ~OverLine
        THEN el_markers.x = <<>> /\ el_markers.y = <<>>
        ELSE IF InRadius # {}
        THEN /\ el_markers.mkr = "s"
             /\ \E i \in InRadius :
                   /\ \A j \in 1..Len(el_last.hit_list) :
                         MotionDist(i) <= MotionDist(j)
                   /\ el_markers.x = <<el_x[el_last.hit_list[i] + 1]>>
                   /\ el_markers.y = <<el_y[el_last.hit_list[i] + 1]>>
        ELSE LET h == el_last.hit_list[1] IN
             /\ el_markers.mkr = ""
             /\ el_markers.x = SubSeq(el_x, h + 1, Min(h + 2, Len(el_x)))
             /\ el_markers.y = SubSeq(el_y, h + 1, Min(h + 2, Len(el_y)))

(***************************************************************************)
(* do_scale_bounds across presses and releases of the mouse buttons        *)
(***************************************************************************)
\* the figure as constructed with do_scale_bounds=True (with False the
\* handlers never change the flag)
InitScale ==
    /\ hilited = NoSel
    /\ selected = NoSel
    /\ do_scale_bounds = TRUE
    /\ save_do_scale_bounds = NoAttr
    /\ do_action = "do_shape_action"
    /\ on_finished = None
    /\ event_dict = <<>>
    /\ callback_ids = [attr |-> "noattr", ids |-> <<>>]
    /\ view_bbox = FullBox
    /\ ax = NoAttr
    /\ artists = InitArtists
    /\ pan_button = NoAttr
    /\ boxes = [b \in 1..MaxBoxes |-> FreeBox]
    /\ canvas = {}
    /\ cid_reuse = TRUE
    /\ last = Step("__init__", <<>>)
    /\ calls = <<>>
    /\ raised = "none"
    /\ zooms = 0
    /\ held = 0
    /\ rb_drag = <<>>
    /\ IdleStyle
    /\ IdleParax
    /\ IdleHit
    /\ IdleLine

\* a button goes down: the canvas calls on_press
button_press(p) ==
    /\ held < MaxHeld
    /\ held' = held + 1
    /\ on_press(p)

\* a button goes up, or a release reaches the canvas with no button down
\* (the press happened outside the window): the canvas calls on_release
button_release(p) ==
    /\ held' = IF held > 0 THEN held - 1 ELSE 0
    /\ on_release(p)

NextScale ==
    \/ plot
    \/ \E p \in Pos : button_press(p)
    \/ \E p \in Pos : on_motion(p)
    \/ \E p \in Pos : button_release(p)

SpecScale == InitScale /\ [][NextScale]_vars

\* C14: after any sequence of press and release events, two presses before a
\* release and a release with no press before it included, do_scale_bounds
\* equals the value it had before the first press whenever no button is
\* held, and no handler raises an error.
C14_ScaleBoundsRestored ==
    /\ held = 0 => do_scale_bounds = TRUE
    /\ last.op \in {"on_press", "on_release"} => raised = "none"

(***************************************************************************)
(* The zoom box drawn in any direction                                     *)
(***************************************************************************)
BoxPoints == (0..MaxBoxCoord) \X (0..MaxBoxCoord)

\* the RectangleSelector of box b ends a band drawn from p1 to p2
rubber_band_release(b, p1, p2) ==
    /\ selector_accepts(p1, p2)
    /\ rb_drag' = <<p1, p2>>
    /\ zoom_box_on_release(b, selector_eventpress(p1, p2),
                           selector_eventrelease(p1, p2))

NextBox ==
    \/ plot
    \/ \E cb \in Callbacks : register_zoom_box(cb)
    \/ \E b \in 1..MaxBoxes, p1 \in BoxPoints, p2 \in BoxPoints :
          rubber_band_release(b, p1, p2)

SpecBox == Init /\ [][NextBox]_vars

\* C15: when the rubber band is released, view_bbox is the rectangle whose
\* corners are the data coordinates of the press and of the release, and its
\* lower-left corner is <= its upper-right corner in both axes, for every
\* drag direction.
C15_ZoomBoxResult ==
    last.op = "zoom_box_on_release" =>
        /\ view_bbox[1][1] <= view_bbox[2][1]
        /\ view_bbox[1][2] <= view_bbox[2][2]
        /\ {view_bbox[1][1], view_bbox[2][1]} = {rb_drag[1][1], rb_drag[2][1]}
        /\ {view_bbox[1][2], view_bbox[2][2]} = {rb_drag[1][2], rb_drag[2][2]}

\* a band drawn from the lower right to the upper left has set the view box
C15_Witness ==
    /\ last.op = "zoom_box_on_release"
    /\ rb_drag[1][1] > rb_drag[2][1]
    /\ rb_drag[1][2] < rb_drag[2][2]
    /\ view_bbox = <<<<rb_drag[2][1], rb_drag[1][2]>>,
                     <<rb_drag[1][1], rb_drag[2][2]>>>>

====
